---- MODULE Spec2Model ----
(***************************************************************************)
(* Model of experiments/eval_lc.py: the instruction sampling loop of       *)
(* main(), its timed rollout loop, the observation history deque, the      *)
(* sticky gripper logic and the removal of degrees of freedom.             *)
(*                                                                         *)
(* Units: times are in tenths of a second, action components in tenths.    *)
(* Python index k of a vector is position k+1 of the TLA+ tuple.           *)
(***************************************************************************)
EXTENDS Integers, Sequences, FiniteSets, TLC

\* ---------------------------------------------------------------- bounds
MaxSteps == 3        \* FLAGS.num_timesteps ranges over 0..MaxSteps
MaxHorizon == 2      \* FLAGS.act_exec_horizon ranges over 0..MaxHorizon
MaxBatch == 2        \* a policy returns 1..MaxBatch actions
MaxObsHorizon == 2   \* a policy's obs_horizon is None or 0..MaxObsHorizon
MaxSticky == 2       \* STICKY_GRIPPER_NUM_STEPS ranges over 1..MaxSticky

\* ------------------------------------------------------ program constants
STEP_DURATION == 2   \* 0.2 s
GripperMid == 5      \* the 0.5 of "action[-1] < 0.5"
GripperOpen == 10    \* the 1.0 written to action[-1]
GripperShut == 0     \* the 0.0 written to action[-1]
None == -1           \* Python's None for obs_horizon
ActionDim == 7       \* the last axis of what agent.sample_actions returns

VARIABLES
    \* flags and module-level settings, fixed for the process
    num_timesteps, act_exec_horizon, blocking, video_save_path, initial_eep,
    STICKY_GRIPPER_NUM_STEPS, NO_PITCH_ROLL, NO_YAW,
    \* locals of main(); elapsed is time.time() - last_tstep
    pc, instruction, obs_horizon, obs, elapsed, images, t, obs_hist,
    is_gripper_closed, num_consecutive_gripper_change_actions,
    image_obs, actions, i, action,
    \* the collaborators as seen from main(): what was handed to them
    envObs,      \* number of observations the environment has produced
    log,         \* one record per env.step call of this cycle
    noised,      \* the action being handed over, as it was after line 247
    pushed,      \* observations pushed on obs_hist this cycle
    captures,    \* observation captures of this cycle (lines 225-240)
    calls,       \* get_action calls of this cycle
    framesAtCall,\* len(images) when get_action was last called
    fault,       \* the exception that ended the rollout, or "none"
    atFault,     \* the frame list and the number of env.step calls then
    outcome,     \* how the last cycle ended
    written      \* frame lists handed to imageio.mimsave this cycle

flagVars == <<num_timesteps, act_exec_horizon, blocking, video_save_path,
              initial_eep, STICKY_GRIPPER_NUM_STEPS, NO_PITCH_ROLL, NO_YAW>>
gripVars == <<is_gripper_closed, num_consecutive_gripper_change_actions>>
ghostVars == <<envObs, log, noised, pushed, captures, calls, framesAtCall,
               fault, atFault, outcome, written>>
vars == <<flagVars, pc, instruction, obs_horizon, obs, elapsed,
          images, t, obs_hist, gripVars, image_obs, actions, i, action,
          ghostVars>>

\* ------------------------------------------------------------- helpers
Min(a, b) == IF a < b THEN a ELSE b

Repeat(x, n) == [k \in 1..n |-> x]

\* a[k] with Python's zero-based index
At(a, k) == a[k + 1]

\* a with a[k] = v, zero-based
Put(a, k, v) == [a EXCEPT ![k + 1] = v]

ZeroVec == <<0, 0, 0, 0, 0, 0, 0>>

\* what agent.sample_actions, denormalized, may hold at one index of a batch
PolicyActions == { <<1, 2, 3, 4, 5, 6, g>> : g \in {4, 5} }

\* samples of np.random.normal(0, FIXED_STD), one value per dimension
NoiseSamples == { ZeroVec, <<1, -1, 1, -1, 1, -1, 1>> }

AddVec(a, b) == [k \in 1..7 |-> a[k] + b[k]]

\* an observation returned by the environment has the keys image and state;
\* line 231 rebuilds it with the keys image and proprio
\* frames: the images it holds, one if it is not stacked
RawObs(id) == [kind |-> "raw", frames |-> <<id>>]
ProcObs(ids) == [kind |-> "proc", frames |-> ids]

NoFault == [images |-> <<>>, issued |-> 0]

Running == pc \in {"while", "tick", "capture", "infer", "exec", "step"}

\* ----------------------------------------------------------------- Init
\* main() before its loop: the flags range over their values; the settings
\* of lines 49-51 are drawn from the sets given
InitWith(stickySteps, dofFlags) ==
    /\ num_timesteps \in 0..MaxSteps
    /\ act_exec_horizon \in 0..MaxHorizon
    /\ blocking \in BOOLEAN
    /\ video_save_path \in BOOLEAN
    /\ initial_eep \in BOOLEAN
    /\ STICKY_GRIPPER_NUM_STEPS \in stickySteps
    /\ NO_PITCH_ROLL \in dofFlags
    /\ NO_YAW \in dofFlags
    /\ pc = "await"
    /\ instruction = FALSE
    /\ obs_horizon = None
    /\ obs = RawObs(0)
    /\ elapsed = 0
    /\ images = <<>>
    /\ t = 0
    /\ obs_hist = <<>>
    /\ is_gripper_closed = FALSE
    /\ num_consecutive_gripper_change_actions = 0
    /\ image_obs = 0
    /\ actions = 0
    /\ i = 0
    /\ envObs = 0
    /\ log = <<>>
    /\ action = ZeroVec
    /\ noised = ZeroVec
    /\ pushed = <<>>
    /\ captures = 0
    /\ calls = 0
    /\ framesAtCall = 0
    /\ fault = "none"
    /\ atFault = NoFault
    /\ outcome = "none"
    /\ written = <<>>

\* the settings as the source has them: STICKY_GRIPPER_NUM_STEPS = 1,
\* NO_PITCH_ROLL = NO_YAW = False
Init == InitWith({1}, {FALSE})

\* the sticky gripper threshold ranges over 1..MaxSticky
StickyInit == InitWith(1..MaxSticky, {FALSE})

\* NO_PITCH_ROLL and NO_YAW range over both values
DofInit == InitWith({1}, BOOLEAN)

\* ------------------------------------------------- collections.deque
\* append that never drops an entry
DequeAppendUnbounded(d, x, maxlen) == Append(d, x)

\* deque(maxlen).append(x): a full deque drops its oldest entry
DequeAppend(d, x, maxlen) ==
    IF maxlen = 0 THEN <<>>
    ELSE IF Len(d) >= maxlen THEN Append(Tail(d), x)
    ELSE Append(d, x)

RECURSIVE DequeExtend(_, _, _)
\* deque(maxlen).extend(xs): append each element of xs in turn
DequeExtend(d, xs, maxlen) ==
    IF xs = <<>> THEN d
    ELSE DequeExtend(DequeAppend(d, Head(xs), maxlen), Tail(xs), maxlen)

\* lines 234-237 without the fill of the first push
PushObsNoFill(hist, x, horizon) == DequeAppend(hist, x, horizon)

\* lines 234-237: the first push of a rollout fills the history
PushObs(hist, x, horizon) ==
    IF Len(hist) = 0 THEN DequeExtend(hist, Repeat(x, horizon), horizon)
    ELSE DequeAppend(hist, x, horizon)

\* ------------------------------------------------------ sticky gripper
\* line 250: action[-1] < 0.5
CloseRequested(a) == At(a, 6) < GripperMid

\* lines 250-253
StickyCount(a, closed, count) ==
    IF CloseRequested(a) # closed THEN count + 1 ELSE 0

\* the comparison of lines 255-258 made strict
StickyFlipsLate(count) == count > STICKY_GRIPPER_NUM_STEPS

\* lines 255-258
StickyFlips(count) == count >= STICKY_GRIPPER_NUM_STEPS

\* line 262
GripperCommand(closed) == IF closed THEN GripperShut ELSE GripperOpen

\* lines 265-267 with the indices one too high
RemovePitchRollShifted(a) ==
    IF NO_PITCH_ROLL THEN Put(Put(a, 4, 0), 5, 0) ELSE a

\* lines 265-267
RemovePitchRoll(a) ==
    IF NO_PITCH_ROLL THEN Put(Put(a, 3, 0), 4, 0) ELSE a

\* lines 268-269
RemoveYaw(a) == IF NO_YAW THEN Put(a, 5, 0) ELSE a

\* ------------------------------------------------------------ actions
\* an except clause that goes back to the prompt as lines 199-200 do
AbortSkipsVideo(kind) ==
    /\ pc' = "await"
    /\ fault' = kind
    /\ atFault' = [images |-> images, issued |-> Len(log)]
    /\ outcome' = "aborted"

\* lines 280-281: the except clause of the rollout
Abort(kind) ==
    /\ pc' = "save"
    /\ fault' = kind
    /\ atFault' = [images |-> images, issued |-> Len(log)]
    /\ outcome' = "aborted"

\* lines 174-194: choose the policy and the instruction
SelectPolicy ==
    /\ pc = "await"
    /\ obs_horizon' \in {None} \cup (0..MaxObsHorizon)
    /\ instruction' = TRUE
    /\ pc' = "reset"
    /\ envObs' = 0
    /\ log' = <<>>
    /\ action' = ZeroVec
    /\ noised' = ZeroVec
    /\ pushed' = <<>>
    /\ captures' = 0
    /\ calls' = 0
    /\ framesAtCall' = 0
    /\ fault' = "none"
    /\ atFault' = NoFault
    /\ outcome' = "none"
    /\ written' = <<>>
    /\ UNCHANGED <<flagVars, obs, elapsed, images, t, obs_hist,
                   gripVars, image_obs, actions, i>>

\* lines 196-198: env.reset(); env.start()
ResetOk ==
    /\ pc = "reset"
    /\ pc' = "move"
    /\ UNCHANGED <<flagVars, instruction, obs_horizon, obs, elapsed,
                   images, t, obs_hist, gripVars, image_obs, actions, i,
                   action, ghostVars>>

\* lines 199-200: except ... continue
ResetFail ==
    /\ pc = "reset"
    /\ pc' = "await"
    /\ outcome' = "reset_failed"
    /\ UNCHANGED <<flagVars, instruction, obs_horizon, obs, elapsed,
                   images, t, obs_hist, gripVars, image_obs, actions, i,
                   envObs, log, action, noised, pushed, captures, calls,
                   framesAtCall, fault, atFault, written>>

\* lines 203-208: the move to the initial position, if one is configured
MoveOk ==
    /\ pc = "move"
    /\ pc' = "rollout"
    /\ UNCHANGED <<flagVars, instruction, obs_horizon, obs, elapsed,
                   images, t, obs_hist, gripVars, image_obs, actions, i,
                   action, ghostVars>>

\* lines 209-210 with "pass" for "continue"
MoveFailIgnored ==
    /\ pc = "move"
    /\ initial_eep
    /\ pc' = "rollout"
    /\ outcome' = "move_failed"
    /\ UNCHANGED <<flagVars, instruction, obs_horizon, obs, elapsed, images,
                   t, obs_hist, gripVars, image_obs, actions, i, envObs, log,
                   action, noised, pushed, captures, calls, framesAtCall,
                   fault, atFault, written>>

\* lines 209-210: except ... continue
MoveFail ==
    /\ pc = "move"
    /\ initial_eep
    /\ pc' = "await"
    /\ outcome' = "move_failed"
    /\ UNCHANGED <<flagVars, instruction, obs_horizon, obs, elapsed,
                   images, t, obs_hist, gripVars, image_obs, actions, i,
                   envObs, log, action, noised, pushed, captures, calls,
                   framesAtCall, fault, atFault, written>>

\* lines 213-219 with lines 220-221 moved in front of the outer loop
StartRolloutKeepsGripper ==
    /\ pc = "rollout"
    /\ obs' = RawObs(0)
    /\ envObs' = 1
    /\ elapsed' = 0
    /\ images' = <<>>
    /\ t' = 0
    /\ obs_hist' = IF obs_horizon # None THEN <<>> ELSE obs_hist
    /\ image_obs' = 0
    /\ actions' = 0
    /\ i' = 0
    /\ pc' = "while"
    /\ UNCHANGED <<flagVars, instruction, obs_horizon, gripVars,
                   log, action, noised, pushed, captures, calls, framesAtCall,
                   fault, atFault, outcome, written>>

\* lines 213-221 with lines 217-218 moved in front of the outer loop
StartRolloutKeepsHistory ==
    /\ pc = "rollout"
    /\ obs' = RawObs(0)
    /\ envObs' = 1
    /\ elapsed' = 0
    /\ images' = <<>>
    /\ t' = 0
    /\ is_gripper_closed' = FALSE
    /\ num_consecutive_gripper_change_actions' = 0
    /\ image_obs' = 0
    /\ actions' = 0
    /\ i' = 0
    /\ pc' = "while"
    /\ UNCHANGED <<flagVars, instruction, obs_horizon, obs_hist,
                   log, action, noised, pushed, captures, calls, framesAtCall,
                   fault, atFault, outcome, written>>

\* lines 213-221: the locals of one rollout. image_obs, actions and i
\* are written before they are read in every rollout (lines 225, 242, 245),
\* so the values a previous rollout left in them are dropped here.
StartRollout ==
    /\ pc = "rollout"
    /\ obs' = RawObs(0)
    /\ envObs' = 1
    /\ elapsed' = 0
    /\ images' = <<>>
    /\ t' = 0
    /\ obs_hist' = IF obs_horizon # None THEN <<>> ELSE obs_hist
    /\ is_gripper_closed' = FALSE
    /\ num_consecutive_gripper_change_actions' = 0
    /\ image_obs' = 0
    /\ actions' = 0
    /\ i' = 0
    /\ pc' = "while"
    /\ UNCHANGED <<flagVars, instruction, obs_horizon,
                   log, action, noised, pushed, captures, calls, framesAtCall,
                   fault, atFault, outcome, written>>

\* line 223: while t < FLAGS.num_timesteps
WhileCheck ==
    /\ pc = "while"
    /\ IF t < num_timesteps
       THEN pc' = "tick" /\ outcome' = outcome
       ELSE pc' = "save" /\ outcome' = "completed"
    /\ UNCHANGED <<flagVars, instruction, obs_horizon, obs, elapsed,
                   images, t, obs_hist, gripVars, image_obs, actions, i,
                   envObs, log, action, noised, pushed, captures, calls,
                   framesAtCall, fault, atFault, written>>

\* line 224 with ">=" for ">"
DeadlinePassedAtDeadline == elapsed >= STEP_DURATION \/ blocking

\* line 224 with "and" for "or"
DeadlinePassedAndBlocking == elapsed > STEP_DURATION /\ blocking

\* line 224
DeadlinePassed == elapsed > STEP_DURATION \/ blocking

\* line 224: an iteration before the deadline does nothing
TimeCheck ==
    /\ pc = "tick"
    /\ pc' = IF DeadlinePassed THEN "capture" ELSE "while"
    /\ UNCHANGED <<flagVars, instruction, obs_horizon, obs, elapsed,
                   images, t, obs_hist, gripVars, image_obs, actions, i,
                   action, ghostVars>>

\* time.time() advances. The clock is read at line 224 only (line 240
\* restarts the count), so it is advanced where the loop is about to read
\* it, and no further than past the deadline that line 224 compares with.
Tick ==
    /\ pc \in {"while", "tick"}
    /\ ~(elapsed > STEP_DURATION)
    /\ elapsed' = elapsed + 1
    /\ UNCHANGED <<flagVars, pc, instruction, obs_horizon, obs,
                   images, t, obs_hist, gripVars, image_obs, actions, i,
                   action, ghostVars>>

\* lines 225-231: obs["image"] reshapes to one image only if obs holds one,
\* and only an observation of the environment has the key "state"
CaptureFails == Len(obs.frames) # 1 \/ obs.kind # "raw"

\* lines 225-240 when no exception is raised there: the captured frame, the
\* history after the push and the observation handed to the policy
CaptureHist ==
    IF obs_horizon # None THEN PushObs(obs_hist, obs.frames[1], obs_horizon)
    ELSE obs_hist

\* lines 59-63: stack_obs reads obs[0]
StackFails == obs_horizon # None /\ Len(CaptureHist) = 0

\* lines 225-240: capture the frame, push it on the history, take the time
Capture ==
    /\ pc = "capture"
    /\ captures' = captures + 1
    /\ IF CaptureFails
       THEN /\ Abort("capture")
            /\ image_obs' = IF Len(obs.frames) = 1 THEN obs.frames[1]
                            ELSE image_obs
            /\ UNCHANGED <<obs, obs_hist, pushed, elapsed>>
       ELSE /\ image_obs' = obs.frames[1]
            /\ obs_hist' = CaptureHist
            /\ pushed' = IF obs_horizon # None
                         THEN Append(pushed, obs.frames[1]) ELSE pushed
            /\ IF StackFails
               THEN /\ Abort("stack")
                    /\ obs' = ProcObs(<<obs.frames[1]>>)
                    /\ UNCHANGED elapsed
               ELSE /\ obs' = IF obs_horizon # None THEN ProcObs(CaptureHist)
                              ELSE ProcObs(<<obs.frames[1]>>)
                    /\ elapsed' = 0
                    /\ pc' = "infer"
                    /\ UNCHANGED <<fault, atFault, outcome>>
    /\ UNCHANGED <<flagVars, instruction, obs_horizon, images, t,
                   gripVars, actions, i, envObs, log, action, noised, calls,
                   framesAtCall, written>>

\* lines 242-245: the policy returns a batch; a single action becomes a
\* batch of one. actions is the length of the batch; what it holds at an
\* index is drawn when line 246 reads it.
GetActionOk ==
    /\ pc = "infer"
    /\ actions' \in 1..MaxBatch
    /\ i' = 0
    /\ calls' = calls + 1
    /\ framesAtCall' = Len(images)
    /\ pc' = "exec"
    /\ UNCHANGED <<flagVars, instruction, obs_horizon, obs, elapsed,
                   images, t, obs_hist, gripVars, image_obs, envObs, log,
                   action, noised, pushed, captures, fault, atFault, outcome,
                   written>>

\* lengths the mean and std of a checkpoint's action metadata may have
StatsLens == {1, ActionDim - 1, ActionDim}

\* line 124: numpy multiplies and adds an array whose last axis is n with
\* one of length k if the lengths are equal or one of them is 1
Broadcasts(n, k) == n = k \/ n = 1 \/ k = 1

\* line 124 raising carried out of the rollout and of main()
GetActionMismatchFatal ==
    /\ pc = "infer"
    /\ calls = 0
    /\ \E k \in StatsLens : ~Broadcasts(ActionDim, k)
    /\ calls' = calls + 1
    /\ framesAtCall' = Len(images)
    /\ pc' = "exited"
    /\ fault' = "denormalize"
    /\ atFault' = [images |-> images, issued |-> Len(log)]
    /\ outcome' = "exited"
    /\ UNCHANGED <<flagVars, instruction, obs_horizon, obs, elapsed,
                   images, t, obs_hist, gripVars, image_obs, actions, i,
                   envObs, log, action, noised, pushed, captures, written>>

\* lines 118-125, 242: the statistics of the policy do not fit its actions
\* and line 124 raises in get_action, at the first call as at every other
GetActionMismatch ==
    /\ pc = "infer"
    /\ calls = 0
    /\ \E k \in StatsLens : ~Broadcasts(ActionDim, k)
    /\ calls' = calls + 1
    /\ framesAtCall' = Len(images)
    /\ Abort("denormalize")
    /\ UNCHANGED <<flagVars, instruction, obs_horizon, obs, elapsed,
                   images, t, obs_hist, gripVars, image_obs, actions, i,
                   envObs, log, action, noised, pushed, captures, written>>

\* line 242 raising
GetActionFault ==
    /\ pc = "infer"
    /\ calls' = calls + 1
    /\ framesAtCall' = Len(images)
    /\ Abort("policy")
    /\ UNCHANGED <<flagVars, instruction, obs_horizon, obs, elapsed,
                   images, t, obs_hist, gripVars, image_obs, actions, i,
                   envObs, log, action, noised, pushed, captures, written>>

\* a for loop that also stops when the step budget is used up
HasNextInBudget(k) == k < act_exec_horizon /\ t < num_timesteps

\* range(FLAGS.act_exec_horizon + 1)
HasNextInclusive(k) == k <= act_exec_horizon

\* line 245: range(FLAGS.act_exec_horizon) has another index
HasNext(k) == k < act_exec_horizon

\* lines 250-260: the gripper state after one action
NextCount(a) ==
    StickyCount(a, is_gripper_closed, num_consecutive_gripper_change_actions)

NextClosed(a) ==
    IF StickyFlips(NextCount(a)) THEN ~is_gripper_closed
    ELSE is_gripper_closed

\* lines 262-269 with the gripper command taken before the sticky update
ProcessedStale(a) ==
    RemoveYaw(RemovePitchRoll(Put(a, 6, GripperCommand(is_gripper_closed))))

\* lines 262-269: the action handed to env.step
Processed(a) ==
    RemoveYaw(RemovePitchRoll(Put(a, 6, GripperCommand(NextClosed(a)))))

\* lines 246-269: take actions[i], add the noise, run the sticky gripper
\* logic and remove the degrees of freedom
PrepareAction(a, noise) ==
    /\ pc = "exec"
    /\ HasNext(i)
    /\ i < actions
    /\ LET noisy == AddVec(a, noise)
       IN /\ num_consecutive_gripper_change_actions' =
                IF StickyFlips(NextCount(noisy)) THEN 0
                ELSE NextCount(noisy)
          /\ is_gripper_closed' = NextClosed(noisy)
          /\ action' = Processed(noisy)
          /\ noised' = noisy
          /\ log' = Append(log,
                [i |-> i, batch |-> calls,
                 req |-> CloseRequested(noisy),
                 before |-> is_gripper_closed,
                 after |-> NextClosed(noisy),
                 stamp |-> captures,
                 ok |-> FALSE])
    /\ pc' = "step"
    /\ UNCHANGED <<flagVars, instruction, obs_horizon, obs, elapsed, images,
                   t, obs_hist, image_obs, actions, i, envObs, pushed,
                   captures, calls, framesAtCall, fault, atFault,
                   outcome, written>>

\* the image of the observation that env.step is returning
SavedFrameAfterStep == envObs

\* line 277: the frame that is saved
SavedFrame == image_obs

\* lines 272-279: env.step returns the next observation; the frame captured
\* before the policy call is saved and the step is counted
EnvStepOk ==
    /\ pc = "step"
    /\ obs' = RawObs(envObs)
    /\ envObs' = envObs + 1
    /\ images' = Append(images, SavedFrame)
    /\ t' = t + 1
    /\ i' = i + 1
    /\ log' = [log EXCEPT ![Len(log)].ok = TRUE]
    /\ action' = ZeroVec
    /\ noised' = ZeroVec
    /\ pc' = "exec"
    /\ UNCHANGED <<flagVars, instruction, obs_horizon, elapsed, obs_hist,
                   gripVars, image_obs, actions, pushed, captures, calls,
                   framesAtCall, fault, atFault, outcome, written>>

\* line 279 moved in front of line 272
EnvStepFaultCounted ==
    /\ pc = "step"
    /\ Abort("step")
    /\ t' = t + 1
    /\ action' = ZeroVec
    /\ noised' = ZeroVec
    /\ UNCHANGED <<flagVars, instruction, obs_horizon, obs, elapsed, images,
                   obs_hist, gripVars, image_obs, actions, i, envObs, log,
                   pushed, captures, calls, framesAtCall, written>>

\* line 272 raising
EnvStepFault ==
    /\ pc = "step"
    /\ Abort("step")
    /\ action' = ZeroVec
    /\ noised' = ZeroVec
    /\ UNCHANGED <<flagVars, instruction, obs_horizon, obs, elapsed, images,
                   t, obs_hist, gripVars, image_obs, actions, i, envObs, log,
                   pushed, captures, calls, framesAtCall, written>>

\* line 246: actions[i] past the end of the batch
ExecIndexError ==
    /\ pc = "exec"
    /\ HasNext(i)
    /\ i >= actions
    /\ Abort("index")
    /\ UNCHANGED <<flagVars, instruction, obs_horizon, obs, elapsed,
                   images, t, obs_hist, gripVars, image_obs, actions, i,
                   envObs, log, action, noised, pushed, captures, calls,
                   framesAtCall, written>>

\* line 245: the for loop is exhausted
ExecDone ==
    /\ pc = "exec"
    /\ ~HasNext(i)
    /\ pc' = "while"
    /\ UNCHANGED <<flagVars, instruction, obs_horizon, obs, elapsed,
                   images, t, obs_hist, gripVars, image_obs, actions, i,
                   action, ghostVars>>

\* lines 285-291 without the test of line 284
SaveVideoAlways ==
    /\ pc = "save"
    /\ written' = Append(written, images)
    /\ pc' = "await"
    /\ UNCHANGED <<flagVars, instruction, obs_horizon, obs, elapsed,
                   images, t, obs_hist, gripVars, image_obs, actions, i,
                   envObs, log, action, noised, pushed, captures, calls,
                   framesAtCall, fault, atFault, outcome>>

\* lines 284-291
SaveVideo ==
    /\ pc = "save"
    /\ written' = IF video_save_path THEN Append(written, images)
                  ELSE written
    /\ pc' = "await"
    /\ UNCHANGED <<flagVars, instruction, obs_horizon, obs, elapsed,
                   images, t, obs_hist, gripVars, image_obs, actions, i,
                   envObs, log, action, noised, pushed, captures, calls,
                   framesAtCall, fault, atFault, outcome>>

Prepare == \E a \in PolicyActions, noise \in NoiseSamples :
               PrepareAction(a, noise)

Program ==
    \/ SelectPolicy
    \/ ResetOk
    \/ ResetFail
    \/ MoveOk
    \/ MoveFail
    \/ StartRollout
    \/ WhileCheck
    \/ TimeCheck
    \/ Capture
    \/ GetActionOk
    \/ GetActionFault
    \/ GetActionMismatch
    \/ Prepare
    \/ EnvStepOk
    \/ EnvStepFault
    \/ ExecIndexError
    \/ ExecDone
    \/ SaveVideo

Next == Program \/ Tick

Spec == Init /\ [][Next]_vars

StickySpec == StickyInit /\ [][Next]_vars

DofSpec == DofInit /\ [][Next]_vars

\* =====================================================================
\* Properties
\* =====================================================================

\* the env.step calls of this cycle that returned
Executed == Cardinality({k \in 1..Len(log) : log[k].ok})

\* the env.step calls made for the batch of the latest get_action call
InBatch == SelectSeq(log, LAMBDA e : e.batch = calls)

\* ---------------------------------------------------------------------
\* C1: with act_exec_horizon >= 1, the actions executed in one episode
\* never exceed num_timesteps, and an episode that ends without a fault
\* has executed exactly num_timesteps of them.
C1_ExecutesExactlyNumTimesteps ==
    act_exec_horizon >= 1 =>
        /\ Executed <= num_timesteps
        /\ outcome = "completed" => Executed = num_timesteps

\* ---------------------------------------------------------------------
\* the k-th filtered action asked for the state the gripper was not in
Disagrees(k) == log[k].req # log[k].before

\* the k-th filtered action changed the gripper state
Flipped(k) == log[k].after # log[k].before

RECURSIVE Streak(_)
\* how many actions up to and including the k-th disagreed in a row, counted
\* from the last agreeing action or the last flip
Streak(k) ==
    IF ~Disagrees(k) THEN 0
    ELSE IF k = 1 \/ ~Disagrees(k - 1) \/ Flipped(k - 1) THEN 1
    ELSE 1 + Streak(k - 1)

\* C2: the gripper state flips exactly on the STICKY_GRIPPER_NUM_STEPS-th
\* consecutive action that disagrees with it; an agreeing action and a flip
\* both put the counter back to 0, and between actions the state does not
\* change.
C2_FlipOnThresholdthDisagreement ==
    /\ \A k \in 1..Len(log) :
          /\ Flipped(k) <=> Streak(k) = STICKY_GRIPPER_NUM_STEPS
          /\ log[k].before = IF k = 1 THEN FALSE ELSE log[k - 1].after
    /\ Len(log) > 0 =>
          /\ is_gripper_closed = log[Len(log)].after
          /\ num_consecutive_gripper_change_actions =
                IF Flipped(Len(log)) THEN 0 ELSE Streak(Len(log))

\* a run of disagreements was interrupted, and the flip came only after
\* two further disagreements in a row
C2_Witness ==
    /\ STICKY_GRIPPER_NUM_STEPS = 2
    /\ Len(log) = 4
    /\ Disagrees(1) /\ ~Disagrees(2) /\ Disagrees(3) /\ Flipped(4)
    /\ is_gripper_closed

\* ---------------------------------------------------------------------
\* C3: once env.step, get_action or any other statement of the rollout
\* has raised, the frame list keeps every frame it had, no further action
\* is handed to the environment, the rollout goes on to the video step and
\* from there to the instruction prompt, and what is saved is that frame
\* list.
C3_FaultKeepsFramesAndReturns ==
    fault # "none" =>
        /\ pc \in {"save", "await"}
        /\ images = atFault.images
        /\ Len(log) = atFault.issued
        /\ outcome = "aborted"
        /\ pc = "await" =>
              written = IF video_save_path THEN <<atFault.images>> ELSE <<>>

\* env.step raised on the second action of a batch; the one frame saved
\* before it was written out and the loop is back at the prompt
C3_Witness ==
    /\ fault = "step"
    /\ pc = "await"
    /\ log[Len(log)].i = 1
    /\ Len(images) = 1
    /\ written = <<images>>

\* ---------------------------------------------------------------------
\* the batch of the latest get_action call is over without env.step raising
BatchEnded ==
    \/ pc = "while" /\ calls > 0
    \/ pc = "save" /\ fault = "index"

\* C4: of a batch of length L exactly min(act_exec_horizon, L) actions are
\* handed to env.step, in the order of their indices from 0, all of them
\* return, and as many frames are appended, before get_action is called
\* again.
C4_ExecutesMinHorizonBatch ==
    BatchEnded =>
        LET m == Min(act_exec_horizon, actions)
        IN /\ Len(InBatch) = m
           /\ \A k \in 1..Len(InBatch) :
                 InBatch[k].i = k - 1 /\ InBatch[k].ok
           /\ Len(images) - framesAtCall = m

\* a second batch has run to its end: one of its two actions was executed
C4_Witness ==
    /\ pc = "while"
    /\ calls = 2
    /\ act_exec_horizon = 1
    /\ actions = 2
    /\ Len(InBatch) = 1
    /\ Len(images) = 2

\* ---------------------------------------------------------------------
\* C5: with obs_horizon N > 0, after the first push and K < N further ones
\* the history is the first observation N-K times and then the K latest
\* observations, oldest first; it is what the policy is given.
C5_HistoryFill ==
    (obs_horizon # None /\ obs_horizon > 0 /\ Len(pushed) >= 1
        /\ Len(pushed) - 1 < obs_horizon) =>
        LET K == Len(pushed) - 1
        IN /\ obs_hist = Repeat(pushed[1], obs_horizon - K)
                             \o SubSeq(pushed, 2, K + 1)
           /\ pc = "infer" => obs.frames = obs_hist

\* a history of two after one further push: the first observation once,
\* then the next one
C5_Witness ==
    /\ obs_horizon = 2
    /\ Len(pushed) = 2
    /\ pushed[1] # pushed[2]
    /\ pc = "infer"
    /\ obs_hist = <<pushed[1], pushed[2]>>

\* ---------------------------------------------------------------------
\* C6: with obs_horizon N > 0 the history of a rollout never holds more
\* than N observations, holds exactly N from the first push on, and a push
\* on a full history drops the oldest: after more than N pushes it is the N
\* latest ones.
C6_HistoryBound ==
    (Running /\ obs_horizon # None /\ obs_horizon > 0) =>
        /\ Len(obs_hist) <= obs_horizon
        /\ Len(pushed) >= 1 => Len(obs_hist) = obs_horizon
        /\ pc \in {"infer", "exec", "step"} => Len(obs_hist) = obs_horizon
        /\ Len(pushed) > obs_horizon =>
              obs_hist = SubSeq(pushed, Len(pushed) - obs_horizon + 1,
                                Len(pushed))

\* three pushes on a history of two: the first observation is gone
C6_Witness ==
    /\ obs_horizon = 2
    /\ Len(pushed) = 3
    /\ pc = "infer"
    /\ obs_hist = <<pushed[2], pushed[3]>>
    /\ pushed[1] # pushed[2]

\* ---------------------------------------------------------------------
\* C7: the action handed to env.step has components 3 and 4 at 0 when
\* NO_PITCH_ROLL is set and component 5 at 0 when NO_YAW is set; a component
\* whose flag is not set is the one the policy and the noise produced.
C7_DofMasking ==
    pc = "step" =>
        /\ NO_PITCH_ROLL => At(action, 3) = 0 /\ At(action, 4) = 0
        /\ NO_YAW => At(action, 5) = 0
        /\ ~NO_PITCH_ROLL => /\ At(action, 3) = At(noised, 3)
                             /\ At(action, 4) = At(noised, 4)
        /\ ~NO_YAW => At(action, 5) = At(noised, 5)
        /\ \A k \in 0..2 : At(action, k) = At(noised, k)

\* pitch and roll removed from an action that had them, yaw passed through
C7_Witness ==
    /\ pc = "step"
    /\ NO_PITCH_ROLL /\ ~NO_YAW
    /\ At(noised, 3) # 0 /\ At(noised, 4) # 0 /\ At(noised, 5) # 0
    /\ At(action, 3) = 0 /\ At(action, 4) = 0 /\ At(action, 5) # 0

\* ---------------------------------------------------------------------
\* C8: the gripper channel of the action handed to env.step is 0.0 if the
\* gripper state after the sticky logic for that action is closed and 1.0
\* if it is open, whatever the policy produced.
C8_GripperChannelBinary ==
    pc = "step" =>
        /\ At(action, 6) = IF is_gripper_closed THEN GripperShut
                           ELSE GripperOpen
        /\ is_gripper_closed = log[Len(log)].after

\* a policy value that is neither 0.0 nor 1.0 that did not flip the state
\* yet: the open command is sent although the policy asked to close
C8_Witness ==
    /\ pc = "step"
    /\ STICKY_GRIPPER_NUM_STEPS = 2
    /\ At(noised, 6) = 4
    /\ ~is_gripper_closed
    /\ At(action, 6) = GripperOpen

\* ---------------------------------------------------------------------
\* The rollout loop under its scheduling: the program takes its next step
\* (every call of a collaborator returns or raises) and the wall clock
\* keeps advancing.
LiveSpec == Spec /\ WF_vars(Program) /\ WF_vars(Tick)

\* C9: a rollout that has entered its timed loop leaves it, completed or
\* aborted, whatever num_timesteps, act_exec_horizon and blocking are.
C9_RolloutLeavesRunning == Running ~> ~Running

\* a rollout without the blocking controller waited for the clock, ran all
\* of its timesteps and is at the video step
C9_Witness ==
    /\ pc = "save"
    /\ ~blocking
    /\ outcome = "completed"
    /\ num_timesteps = MaxSteps
    /\ captures >= 2
    /\ t >= num_timesteps

\* ---------------------------------------------------------------------
\* C10: when env.reset/env.start or the move to the initial position
\* raises, the loop is back at the instruction prompt and that cycle has
\* read no observation, called no policy, handed no action to the
\* environment and written no video.
C10_ResetFailureSkipsRollout ==
    outcome \in {"reset_failed", "move_failed"} =>
        /\ pc = "await"
        /\ envObs = 0
        /\ captures = 0
        /\ calls = 0
        /\ log = <<>>
        /\ written = <<>>

\* the move to the initial position raised after an earlier rollout that
\* had run: the loop is at the prompt with nothing done in this cycle
C10_Witness ==
    /\ outcome = "move_failed"
    /\ pc = "await"
    /\ t > 0
    /\ calls = 0

\* ---------------------------------------------------------------------
\* C11: a rollout, completed or aborted, hands its frame list to the video
\* writer once if video_save_path is set and never if it is not, after the
\* loop and not before, and then the loop is at the instruction prompt.
C11_VideoWrittenOncePerRollout ==
    /\ (Running \/ pc = "save") => written = <<>>
    /\ outcome \in {"completed", "aborted"} =>
          /\ pc \in {"save", "await"}
          /\ pc = "await" =>
                written = IF video_save_path THEN <<images>> ELSE <<>>

\* a rollout that ran all its steps is back at the prompt and its frames
\* were written once
C11_Witness ==
    /\ pc = "await"
    /\ outcome = "completed"
    /\ video_save_path
    /\ Len(images) = MaxSteps
    /\ written = <<images>>

\* ---------------------------------------------------------------------
\* C12 as stated: between the end of one rollout and the first action of
\* the next the gripper state and its counter are left as they are.
C12_GripperStateCarriedOver == [][~Running => UNCHANGED gripVars]_vars

\* C12, amended: the gripper state and its counter are set anew at the
\* start of every rollout, to open and 0, so the first action of a rollout
\* is filtered against open and 0 whatever the rollout before left; nothing
\* else outside the rollout changes them.
C12_GripperStateResetPerRollout ==
    [][~Running =>
          IF pc = "rollout"
          THEN /\ is_gripper_closed' = FALSE
               /\ num_consecutive_gripper_change_actions' = 0
          ELSE UNCHANGED gripVars]_vars

\* the rollout before ended with the gripper closed and the next one is
\* about to start
C12_Witness ==
    /\ pc = "rollout"
    /\ is_gripper_closed
    /\ t > 0

\* ---------------------------------------------------------------------
\* C13: when a rollout enters its loop, and until its first capture, the
\* gripper state is open with counter 0 and the history of a policy that
\* has an obs_horizon is empty; the observation given to the policy holds
\* only observations pushed in this rollout.
C13_RolloutStartsFresh ==
    /\ (Running /\ captures = 0) =>
          /\ ~is_gripper_closed
          /\ num_consecutive_gripper_change_actions = 0
          /\ log = <<>>
          /\ obs_horizon # None => obs_hist = <<>> /\ pushed = <<>>
    /\ (Running /\ obs_horizon # None) =>
          /\ \A k \in 1..Len(obs_hist) :
                \E j \in 1..Len(pushed) : obs_hist[k] = pushed[j]
          /\ pc = "infer" => obs.frames = obs_hist

\* a full history and a closed gripper are left from the rollout before
\* when the next one, again with a history, is about to start
C13_Witness ==
    /\ pc = "rollout"
    /\ obs_horizon = 2
    /\ Len(obs_hist) = 2
    /\ is_gripper_closed

\* ---------------------------------------------------------------------
\* C14 as stated: statistics that do not fit the action make get_action
\* raise an error that ends the process; it is not taken as the abort of
\* one rollout that leads back to the instruction prompt.
C14_MismatchEndsProcess ==
    fault = "denormalize" => outcome # "aborted" /\ pc # "await"

\* C14, amended: statistics whose length numpy cannot broadcast against
\* the action make line 124 raise inside the try of the rollout, at its
\* first get_action call; the except clause of lines 280-281 takes it as
\* it takes any other exception: the rollout is aborted before any action,
\* the video step runs and the loop is back at the prompt.
C14_MismatchAbortsRollout ==
    fault = "denormalize" =>
        /\ outcome = "aborted"
        /\ pc \in {"save", "await"}
        /\ calls = 1
        /\ log = <<>>
        /\ images = <<>>
        /\ pc = "await" =>
              written = IF video_save_path THEN << <<>> >> ELSE <<>>

\* the loop is back at the prompt after get_action raised on the
\* statistics
C14_Witness ==
    /\ fault = "denormalize"
    /\ pc = "await"
    /\ captures = 1

\* ---------------------------------------------------------------------
\* C15: without the blocking controller an iteration of the loop goes on
\* to capture an observation only when the time since the last capture, or
\* since the start of the rollout, is more than STEP_DURATION; otherwise it
\* goes back to the loop test and changes nothing. With the blocking
\* controller every iteration goes on to the capture.
C15_IterationWaitsForDeadline ==
    [][/\ pc = "tick" =>
            \/ pc' = "tick"
            \/ /\ blocking \/ elapsed > STEP_DURATION
               /\ pc' = "capture"
            \/ /\ ~blocking
               /\ elapsed <= STEP_DURATION
               /\ pc' = "while"
               /\ UNCHANGED <<obs, obs_hist, images, gripVars, t, elapsed,
                              image_obs, ghostVars>>
       /\ (pc = "rollout" \/ (pc = "capture" /\ pc' = "infer")) =>
             elapsed' = 0
       /\ pc \notin {"rollout", "capture"} =>
             elapsed' \in {elapsed, elapsed + 1}]_vars

\* the second capture of a rollout without the blocking controller, more
\* than STEP_DURATION after the first
C15_Witness ==
    /\ pc = "capture"
    /\ ~blocking
    /\ captures = 1
    /\ elapsed = STEP_DURATION + 1

\* ---------------------------------------------------------------------
\* the env.step calls of this cycle that returned, in order
OkLog == SelectSeq(log, LAMBDA e : e.ok)

\* the observation at hand when the b-th get_action call of the rollout is
\* made: the k-th env.step call that returns gives observation k, and
\* env.current_obs() gave observation 0
ObsBeforeBatch(b) ==
    Cardinality({k \in 1..Len(log) : log[k].ok /\ log[k].batch < b})

\* C16: the frame saved for an executed action is the image of the
\* observation captured before the get_action call of its batch, so all
\* frames of one batch are that same image and none is an observation that
\* env.step returned in the batch.
C16_FramesArePreInference ==
    (Running \/ pc = "save" \/ outcome \in {"completed", "aborted"}) =>
        /\ Len(images) = Len(OkLog)
        /\ \A k \in 1..Len(images) :
              images[k] = ObsBeforeBatch(OkLog[k].batch)

\* two batches of two: the frames are twice the first observation and
\* twice the one the first batch ended with
C16_Witness ==
    /\ act_exec_horizon = 2
    /\ images = <<0, 0, 2, 2>>
    /\ Len(log) = 4

\* ---------------------------------------------------------------------
\* the deadline env.step gets is last_tstep + STEP_DURATION; last_tstep is
\* written by each capture, so two calls get the same deadline if no
\* capture lies between them
SameDeadline(j, k) == log[j].stamp = log[k].stamp

\* C17: no two actions of a rollout are handed to env.step with the same
\* deadline.
C17_OneDeadlinePerAction ==
    \A j, k \in 1..Len(log) : j < k => ~SameDeadline(j, k)

\* ---------------------------------------------------------------------
\* C18: a batch shorter than act_exec_horizon raises nothing: when its
\* actions are used up the rollout is still running.
C18_ShortBatchKeepsRunning ==
    (calls > 0 /\ actions >= 1 /\ actions < act_exec_horizon
        /\ Len(InBatch) = actions
        /\ \A k \in 1..Len(InBatch) : InBatch[k].ok) =>
        Running /\ fault = "none"

\* ---------------------------------------------------------------------
\* C19: between batches and when the rollout is over, the number of saved
\* frames is the step counter t and is the number of env.step calls that
\* returned; a call that raised is in neither, although the gripper state
\* was already updated for its action.
C19_FramesEqualStepsReturned ==
    /\ (pc \in {"while", "tick", "capture", "infer", "save"}
            \/ outcome \in {"completed", "aborted"}) =>
          /\ Len(images) = t
          /\ t = Executed
    /\ fault = "step" =>
          /\ Len(log) = Executed + 1
          /\ ~log[Len(log)].ok
          /\ is_gripper_closed = log[Len(log)].after

\* env.step raised on the action that closed the gripper: the gripper
\* state is closed, the action is not counted
C19_Witness ==
    /\ fault = "step"
    /\ pc = "save"
    /\ t = 1
    /\ Len(log) = 2
    /\ ~log[2].before
    /\ is_gripper_closed

\* ---------------------------------------------------------------------
\* n / h rounded up
Ceil(n, h) == (n + h - 1) \div h

\* C20: with act_exec_horizon H >= 1 a batch that is started is run to its
\* H-th action even when the step budget is used up on the way, so a
\* rollout never executes more than num_timesteps + H - 1 actions, and one
\* that ends without a fault has executed ceil(num_timesteps / H) * H
\* actions with ceil(num_timesteps / H) get_action calls.
C20_BudgetTestedBetweenBatches ==
    act_exec_horizon >= 1 =>
        /\ Executed <= num_timesteps + act_exec_horizon - 1
        /\ (pc = "exec" /\ HasNext(i) /\ i >= 1) =>
              Len(InBatch) = i /\ Executed = framesAtCall + i
        /\ outcome = "completed" =>
              /\ Executed =
                    Ceil(num_timesteps, act_exec_horizon) * act_exec_horizon
              /\ calls = Ceil(num_timesteps, act_exec_horizon)

\* three timesteps asked for, batches of two: four actions executed with
\* two get_action calls
C20_Witness ==
    /\ outcome = "completed"
    /\ num_timesteps = 3
    /\ act_exec_horizon = 2
    /\ Executed = 4
    /\ calls = 2

====
